---- MODULE Spec2Model ----
(***************************************************************************)
(* A model of the langar_db record-keeping backend: the JSON documents     *)
(* (members, attendance, donations, expenses, additional) and the request  *)
(* handlers of src/server.js and of its variant src/unnamed/part_000 that  *)
(* read a whole document, change it in memory and write it back.           *)
(*                                                                         *)
(* JavaScript values that the handlers coerce (roll numbers, years, days)  *)
(* are modelled as tagged values: a number, or a string given as the       *)
(* sequence of its characters, so that String(x), parseInt(x) and the      *)
(* object-key conversion are computed as JavaScript computes them.         *)
(***************************************************************************)
EXTENDS Integers, Sequences, FiniteSets, TLC

\* ------------------------------------------------------------------ bounds

\* Longest roll-number list of a mark / unmark request.
MaxList == 2
\* Most accepted accumulate requests kept in the request log.
MaxCalls == 3
\* Longest expense list of one (year, month) node.
MaxExpenses == 3
\* Most member records of the roster.
MaxMembers == 3
\* Most backup firings.
MaxFirings == 7
\* Most requests received and not yet handled.
MaxInFlight == 2

\* ------------------------------------------------------- JavaScript values

\* A number of a request body.
Num(n) == [t |-> "num", n |-> n, s |-> <<>>]
\* A string of a request body, as the sequence of its characters.
Str(s) == [t |-> "str", n |-> 0, s |-> s]
\* A field the request body does not have.
Undef == [t |-> "undef", n |-> 0, s |-> <<>>]
\* The number Infinity, which JSON.parse gives for a literal such as 1e999.
Inf == [t |-> "inf", n |-> 0, s |-> <<>>]

\* !v is false: v is neither undefined, 0 nor "".
Truthy(v) ==
  CASE v.t = "num" -> v.n # 0
    [] v.t = "str" -> v.s # <<>>
    [] v.t = "inf" -> TRUE
    [] OTHER -> FALSE

DigitChars == <<"0", "1", "2", "3", "4", "5", "6", "7", "8", "9">>

IsDigit(c) == \E i \in 1..10 : DigitChars[i] = c

DigitValue(c) == (CHOOSE i \in 1..10 : DigitChars[i] = c) - 1

\* The decimal digits of a natural number.
RECURSIVE Digits(_)
Digits(n) ==
  IF n < 10 THEN <<DigitChars[n + 1]>>
  ELSE Digits(n \div 10) \o <<DigitChars[(n % 10) + 1]>>

\* String(v), which is also the property key obj[v] reads and writes.
ToKey(v) ==
  CASE v.t = "num" -> IF v.n < 0 THEN <<"-">> \o Digits(0 - v.n) ELSE Digits(v.n)
    [] v.t = "str" -> v.s
    [] v.t = "inf" -> <<"I", "n", "f", "i", "n", "i", "t", "y">>
    [] OTHER -> <<"u", "n", "d", "e", "f", "i", "n", "e", "d">>

\* The value of the digits s[i..], read left to right until the first
\* character that is not a digit; acc is the value read so far.
RECURSIVE DigitRun(_, _, _)
DigitRun(s, i, acc) ==
  IF i > Len(s) \/ ~IsDigit(s[i]) THEN acc
  ELSE DigitRun(s, i + 1, acc * 10 + DigitValue(s[i]))

\* parseInt of a string: an optional sign, then the leading digits; NaN when
\* there is no leading digit.
ParseIntStr(s) ==
  LET neg == Len(s) >= 1 /\ s[1] = "-"
      from == IF neg THEN 2 ELSE 1
  IN IF from > Len(s) \/ ~IsDigit(s[from])
     THEN [nan |-> TRUE, n |-> 0]
     ELSE [nan |-> FALSE,
           n |-> IF neg THEN 0 - DigitRun(s, from, 0) ELSE DigitRun(s, from, 0)]

\* parseInt(v): v is converted to a string first.
ParseInt(v) == ParseIntStr(ToKey(v))

\* a === b for two results of parseInt: NaN equals nothing, itself included.
SameNumber(a, b) == ~a.nan /\ ~b.nan /\ a.n = b.n

\* --------------------------------------------------------- object helpers

\* obj[k], or dflt when obj has no property k.
Get(obj, k, dflt) == IF k \in DOMAIN obj THEN obj[k] ELSE dflt

\* obj after obj[k] = v.
Put(obj, k, v) == [x \in DOMAIN obj \cup {k} |-> IF x = k THEN v ELSE obj[x]]

\* obj after delete obj[k].
Del(obj, k) == [x \in DOMAIN obj \ {k} |-> obj[x]]

\* The object {}.
EmptyObj == <<>>

\* data[0] of a document read as an array, {} when it is not an object.
RootOf(data) == IF Len(data) >= 1 THEN data[1] ELSE EmptyObj

\* --------------------------------------------------------------- state

VARIABLES
  variant,         \* which server file runs: "legacy" (server.js) or "extended" (part_000)
  members,         \* data/members.json: the array of member records
  attendance,      \* data/attendance.json: the array [ {year: {month: {day: {rollNo: "present"}}}} ]
  donations,       \* data/donations.json: {year: {month: {rollNo: leaf}}}
  expenses,        \* data/expenses.json: the array [ {year: {month: [ {amount, description} ]}} ]
  additional,      \* data/additional.json: {donatedRemoved}
  calls,           \* history: per coordinate, how many accumulate requests were answered
                   \* with success since it was last absent, and the sum of their amounts
  accepted,        \* history: how many accumulate requests were answered with success
  prevAttendance,  \* history: attendance.json as it was before the last attendance request
  beforeMark,      \* history: attendance.json before the mark, when the last two requests
                   \* were a mark of one absent roll number and then its unmark
  last,            \* the last request and the response it was given
  backups,         \* backup/: for each bucket, the archives it holds, by creation time
  now,             \* the clock: how many backup firings there have been
  inflight         \* the requests the server has received and not yet handled

vars == <<variant, members, attendance, donations, expenses, additional,
          calls, accepted, prevAttendance, beforeMark, last, backups, now, inflight>>

\* ---------------------------------------------------------- attendance

\* monthMap[monthName] || null, with 0 for null.
monthNameToNumber(monthName) ==
  CASE monthName = "January" -> 1
    [] monthName = "February" -> 2
    [] monthName = "March" -> 3
    [] monthName = "April" -> 4
    [] monthName = "May" -> 5
    [] monthName = "June" -> 6
    [] monthName = "July" -> 7
    [] monthName = "August" -> 8
    [] monthName = "September" -> 9
    [] monthName = "October" -> 10
    [] monthName = "November" -> 11
    [] monthName = "December" -> 12
    [] OTHER -> 0

\* monthNames[monthNumber - 1] || null, with "" for null.
monthNumberToName(monthNumber) ==
  IF monthNumber \in 1..12
  THEN <<"January", "February", "March", "April", "May", "June", "July",
         "August", "September", "October", "November", "December">>[monthNumber]
  ELSE ""

\* !year || !month || !day || !Array.isArray(attendance)
AttendanceInvalid(req) ==
  \/ ~Truthy(req.year)
  \/ req.month = ""
  \/ ~Truthy(req.day)
  \/ ~req.isArray

\* Mutant of MarkEach: marking a roll number that is present removes it.
RECURSIVE MarkEachToggle(_, _, _)
MarkEachToggle(dayNode, items, i) ==
  IF i > Len(items) THEN dayNode
  ELSE IF ToKey(items[i]) \in DOMAIN dayNode
       THEN MarkEachToggle(Del(dayNode, ToKey(items[i])), items, i + 1)
       ELSE MarkEachToggle(Put(dayNode, ToKey(items[i]), "present"), items, i + 1)

\* attendance.forEach((rollNo) => { day[rollNo] = "present" }), from item i on.
RECURSIVE MarkEach(_, _, _)
MarkEach(dayNode, items, i) ==
  IF i > Len(items) THEN dayNode
  ELSE MarkEach(Put(dayNode, ToKey(items[i]), "present"), items, i + 1)

\* Mutant of UpdateAttendance: the day node is replaced by a new object even
\* when it exists.
UpdateAttendanceResetsDay(data, req) ==
  IF AttendanceInvalid(req) \/ monthNameToNumber(req.month) = 0
  THEN [status |-> 400, data |-> data]
  ELSE LET root == RootOf(data)
           y == ToKey(req.year)
           monthName == monthNumberToName(monthNameToNumber(req.month))
           yearNode == Get(root, y, EmptyObj)
           monthNode == Get(yearNode, monthName, EmptyObj)
           dayNode == MarkEach(EmptyObj, req.attendance, 1)
       IN [status |-> 200,
           data |-> <<Put(root, y, Put(yearNode, monthName,
                                       Put(monthNode, ToKey(req.day), dayNode)))>>]

\* POST /update-attendance: the response status and the document afterwards.
UpdateAttendance(data, req) ==
  IF AttendanceInvalid(req) THEN [status |-> 400, data |-> data]
  ELSE LET monthNumber == monthNameToNumber(req.month) IN
    IF monthNumber = 0 THEN [status |-> 400, data |-> data]
    ELSE LET root == RootOf(data)
             y == ToKey(req.year)
             monthName == monthNumberToName(monthNumber)
             d == ToKey(req.day)
             yearNode == Get(root, y, EmptyObj)
             monthNode == Get(yearNode, monthName, EmptyObj)
             dayNode == MarkEach(Get(monthNode, d, EmptyObj), req.attendance, 1)
         IN [status |-> 200,
             data |-> <<Put(root, y, Put(yearNode, monthName, Put(monthNode, d, dayNode)))>>]

\* Mutant of UnmarkEach: every listed roll number is pushed to deleted, present
\* or not.
RECURSIVE UnmarkEachReportsAll(_, _, _, _)
UnmarkEachReportsAll(dayNode, items, i, deleted) ==
  IF i > Len(items) THEN [node |-> dayNode, deleted |-> deleted]
  ELSE UnmarkEachReportsAll(Del(dayNode, ToKey(items[i])), items, i + 1,
                            Append(deleted, items[i]))

\* attendance.forEach: delete each roll number that is present and push it to
\* deleted, from item i on.
RECURSIVE UnmarkEach(_, _, _, _)
UnmarkEach(dayNode, items, i, deleted) ==
  IF i > Len(items) THEN [node |-> dayNode, deleted |-> deleted]
  ELSE IF ToKey(items[i]) \in DOMAIN dayNode
       THEN UnmarkEach(Del(dayNode, ToKey(items[i])), items, i + 1,
                       Append(deleted, items[i]))
       ELSE UnmarkEach(dayNode, items, i + 1, deleted)

\* data[0]?.[year]?.[month]?.[String(day)] is undefined.
NoDateNode(data, req) ==
  \/ Len(data) = 0
  \/ ToKey(req.year) \notin DOMAIN data[1]
  \/ req.month \notin DOMAIN data[1][ToKey(req.year)]
  \/ ToKey(req.day) \notin DOMAIN data[1][ToKey(req.year)][req.month]

\* POST /delete-attendance: the response status, the document afterwards and
\* the deleted list of the response.
DeleteAttendance(data, req) ==
  IF AttendanceInvalid(req) THEN [status |-> 400, data |-> data, deleted |-> <<>>]
  ELSE IF monthNameToNumber(req.month) = 0
  THEN [status |-> 400, data |-> data, deleted |-> <<>>]
  ELSE IF NoDateNode(data, req)
  THEN [status |-> 404, data |-> data, deleted |-> <<>>]
  ELSE LET y == ToKey(req.year)
           d == ToKey(req.day)
           r == UnmarkEach(data[1][y][req.month][d], req.attendance, 1, <<>>)
       IN IF r.deleted = <<>>
          THEN [status |-> 404, data |-> data, deleted |-> <<>>]
          ELSE [status |-> 200,
                data |-> <<[data[1] EXCEPT ![y][req.month][d] = r.node]>>,
                deleted |-> r.deleted]

\* ----------------------------------------------------------- donations

\* The numbers a handler computes with and the values JSON stores for them.
N(n) == [k |-> "num", n |-> n]
Infinity == [k |-> "inf", n |-> 0]
NaN == [k |-> "nan", n |-> 0]
Null == [k |-> "null", n |-> 0]
\* A string that a + made by concatenation, such as "0[object Object]".
Concatenated == [k |-> "str", n |-> 0]

\* Every character of s from position i on is a digit.
RECURSIVE AllDigits(_, _)
AllDigits(s, i) == i > Len(s) \/ (IsDigit(s[i]) /\ AllDigits(s, i + 1))

\* Number(v): a string must be a whole numeric literal ("" is 0), undefined
\* is NaN.
ToNumber(v) ==
  CASE v.t = "num" -> N(v.n)
    [] v.t = "inf" -> Infinity
    [] v.t = "str" ->
         IF v.s = <<>> THEN N(0)
         ELSE IF v.s = <<"I", "n", "f", "i", "n", "i", "t", "y">> THEN Infinity
         ELSE LET from == IF v.s[1] = "-" THEN 2 ELSE 1
              IN IF from <= Len(v.s) /\ AllDigits(v.s, from)
                 THEN N(ParseIntStr(v.s).n) ELSE NaN
    [] OTHER -> NaN

\* a + b for two numbers.
Plus(a, b) ==
  IF a.k = "nan" \/ b.k = "nan" THEN NaN
  ELSE IF a.k = "inf" \/ b.k = "inf" THEN Infinity
  ELSE N(a.n + b.n)

\* JSON.stringify then JSON.parse of a number: Infinity and NaN come back null.
JsonNumber(x) == IF x.k \in {"inf", "nan"} THEN Null ELSE x

\* The leaves of the donation tree: a number (the legacy form), an object
\* {donation, fine} (the extended form), or null.
NumberLeaf(n) == [shape |-> "number", n |-> n, donation |-> Null, fine |-> Null]
NullLeaf == [shape |-> "null", n |-> 0, donation |-> Null, fine |-> Null]
ObjectLeaf(d, f) == [shape |-> "object", n |-> 0, donation |-> d, fine |-> f]

\* data[year][month][rollNo], Undef-like "absent" when a node on the way is missing.
AbsentLeaf == [shape |-> "absent", n |-> 0, donation |-> Null, fine |-> Null]

LeafAt(data, y, m, r) ==
  IF y \in DOMAIN data /\ m \in DOMAIN data[y] /\ r \in DOMAIN data[y][m]
  THEN data[y][m][r] ELSE AbsentLeaf

\* data after data[year][month][rollNo] = leaf, the nodes on the way created
\* when missing.
WithLeaf(data, y, m, r, leaf) ==
  LET yearNode == Get(data, y, EmptyObj)
      monthNode == Get(yearNode, m, EmptyObj)
  IN Put(data, y, Put(yearNode, m, Put(monthNode, r, leaf)))

\* !year || !month || !rollNo || isNaN(amount)
DonationInvalid(req) ==
  \/ ~Truthy(req.year)
  \/ req.month = ""
  \/ ~Truthy(req.rollNo)
  \/ ToNumber(req.amount).k = "nan"

\* POST /update-donations of server.js: one running total per coordinate.
UpdateDonationsLegacy(data, req) ==
  IF DonationInvalid(req) THEN [status |-> 400, data |-> data]
  ELSE LET y == ToKey(req.year)
           r == ToKey(req.rollNo)
           leaf == LeafAt(data, y, req.month, r)
           start == IF leaf.shape = "number" THEN N(leaf.n) ELSE N(0)
           total == JsonNumber(Plus(start, ToNumber(req.amount)))
       IN [status |-> 200,
           data |-> WithLeaf(data, y, req.month, r,
                             IF total.k = "num" THEN NumberLeaf(total.n) ELSE NullLeaf)]

\* !data[year][month][rollNo]: no leaf, null, or the number 0.
FalsyLeaf(leaf) ==
  leaf.shape \in {"absent", "null"} \/ (leaf.shape = "number" /\ leaf.n = 0)

\* Mutant of UpdateDonationsExtended: the leaf is set to { donation: 0, fine: 0 }
\* on every request, whether it exists or not.
UpdateDonationsExtendedResetsLeaf(data, req) ==
  IF DonationInvalid(req) \/ req.type = ""
  THEN [status |-> 400, data |-> data]
  ELSE IF req.type \notin {"donation", "fine"}
  THEN [status |-> 400, data |-> data]
  ELSE LET leaf == ObjectLeaf(N(0), N(0))
           total == JsonNumber(Plus(N(0), ToNumber(req.amount)))
       IN [status |-> 200,
           data |-> WithLeaf(data, ToKey(req.year), req.month, ToKey(req.rollNo),
                             [leaf EXCEPT ![req.type] = total])]

\* POST /update-donations of part_000: a donation and a fine total per
\* coordinate. On a leaf that is a number other than 0 the two property writes
\* act on a primitive and are dropped.
UpdateDonationsExtended(data, req) ==
  IF DonationInvalid(req) \/ req.type = ""
  THEN [status |-> 400, data |-> data]
  ELSE IF req.type \notin {"donation", "fine"}
  THEN [status |-> 400, data |-> data]
  ELSE LET y == ToKey(req.year)
           r == ToKey(req.rollNo)
           found == LeafAt(data, y, req.month, r)
           leaf == IF FalsyLeaf(found) THEN ObjectLeaf(N(0), N(0)) ELSE found
           field == IF leaf[req.type].k = "num" THEN leaf[req.type] ELSE N(0)
           total == JsonNumber(Plus(field, ToNumber(req.amount)))
       IN [status |-> 200,
           data |-> WithLeaf(data, y, req.month, r,
                             IF leaf.shape = "number" THEN leaf
                             ELSE [leaf EXCEPT ![req.type] = total])]

\* ------------------------------------------------------------ expenses

\* amount === undefined || typeof amount !== "number" || !description ||
\* !month || !year
AddExpenseInvalid(req) ==
  \/ req.amount.t # "num"
  \/ req.description = ""
  \/ req.month = ""
  \/ ~Truthy(req.year)

\* Mutant of AddExpense: the expense is pushed and written before the body is
\* validated.
AddExpensePushesFirst(data, req) ==
  LET root == RootOf(data)
      y == ToKey(req.year)
      yearNode == Get(root, y, EmptyObj)
      list == Get(yearNode, req.month, <<>>)
      pushed == Append(list, [amount |-> req.amount.n, description |-> req.description])
  IN [status |-> IF AddExpenseInvalid(req) THEN 400 ELSE 200,
      data |-> <<Put(root, y, Put(yearNode, req.month, pushed))>>]

\* POST /add-expense: the response status and the document afterwards.
AddExpense(data, req) ==
  IF AddExpenseInvalid(req) THEN [status |-> 400, data |-> data]
  ELSE LET root == RootOf(data)
           y == ToKey(req.year)
           yearNode == Get(root, y, EmptyObj)
           list == Get(yearNode, req.month, <<>>)
           pushed == Append(list, [amount |-> req.amount.n,
                                   description |-> req.description])
       IN [status |-> 200, data |-> <<Put(root, y, Put(yearNode, req.month, pushed))>>]

\* !year || !month || index === undefined || typeof index !== "number"
DeleteExpenseInvalid(req) ==
  \/ ~Truthy(req.year)
  \/ req.month = ""
  \/ req.index.t # "num"

\* !data[0] || !data[0][year] || !data[0][year][month] ||
\* !Array.isArray(data[0][year][month])
NoExpenseNode(data, req) ==
  \/ Len(data) = 0
  \/ ToKey(req.year) \notin DOMAIN data[1]
  \/ req.month \notin DOMAIN data[1][ToKey(req.year)]

\* Mutant of IndexOutOfRange: the upper bound is checked with > instead of >=.
IndexOutOfRangeOffByOne(index, list) == index < 0 \/ index > Len(list)

\* index < 0 || index >= data[0][year][month].length
IndexOutOfRange(index, list) == index < 0 \/ index >= Len(list)

\* Mutant of Splice: list.splice(index), which removes every element from
\* index on.
SpliceToEnd(list, index) == [j \in 1..index |-> list[j]]

\* list.splice(index, 1) on a zero-based index: the element is removed and the
\* elements after it move down by one.
Splice(list, index) ==
  [j \in 1..(IF index < Len(list) THEN Len(list) - 1 ELSE Len(list)) |->
     IF j <= index THEN list[j] ELSE list[j + 1]]

\* POST /delete-expense: the response status and error and the document
\* afterwards.
DeleteExpense(data, req) ==
  IF DeleteExpenseInvalid(req)
  THEN [status |-> 400, error |-> "Missing or invalid data", data |-> data]
  ELSE IF NoExpenseNode(data, req)
  THEN [status |-> 404, error |-> "Expense entry not found.", data |-> data]
  ELSE LET y == ToKey(req.year)
           list == data[1][y][req.month]
       IN IF IndexOutOfRange(req.index.n, list)
          THEN [status |-> 400, error |-> "Invalid expense index.", data |-> data]
          ELSE [status |-> 200, error |-> "",
                data |-> <<[data[1] EXCEPT ![y][req.month] = Splice(list, req.index.n)]>>]

\* -------------------------------------------------------------- members

\* A member record of members.json.
Member(roll_no, name, last_name, phone_no, address, img) ==
  [roll_no |-> roll_no, name |-> name, last_name |-> last_name,
   phone_no |-> phone_no, address |-> address, img |-> img]

\* members.findIndex(pred): the first of the positions whose record matches
\* (hits), 0 for -1.
FindIndex(hits) ==
  IF hits = {} THEN 0 ELSE CHOOSE i \in hits : \A j \in hits : i <= j

\* parseInt(key) === rollNo, with rollNo as the request body gave it: only a
\* number is strictly equal to a number.
KeyIsRollNo(key, rollNo) ==
  LET p == ParseIntStr(key) IN rollNo.t = "num" /\ ~p.nan /\ p.n = rollNo.n

\* The (year, month, roll) entries of a donation tree.
DonationEntries(data) ==
  UNION {UNION {{<<y, m, r>> : r \in DOMAIN data[y][m]} : m \in DOMAIN data[y]} :
           y \in DOMAIN data}

\* a + b as JavaScript adds a number (or null, which counts 0) and a leaf: an
\* object operand makes the result a string.
PlusLeaf(a, leaf) ==
  IF a.k = "str" \/ leaf.shape = "object" THEN Concatenated
  ELSE IF leaf.shape = "number" THEN N(a.n + leaf.n)
  ELSE a

\* totalRemoved after the loop over the entries in S.
RECURSIVE TotalRemoved(_, _, _)
TotalRemoved(data, S, acc) ==
  IF S = {} THEN acc
  ELSE LET e == CHOOSE x \in S : TRUE
       IN TotalRemoved(data, S \ {e}, PlusLeaf(acc, data[e[1]][e[2]][e[3]]))

\* The donation tree after delete donations[year][month][roll] for every
\* entry in S.
WithoutEntries(data, S) ==
  [y \in DOMAIN data |->
     [m \in DOMAIN data[y] |->
        [r \in {k \in DOMAIN data[y][m] : <<y, m, k>> \notin S} |-> data[y][m][r]]]]

\* (additional.donatedRemoved || 0) + totalRemoved
AddRemoved(doc, total) ==
  LET old == Get(doc, "donatedRemoved", N(0))
      base == IF old.k = "str" \/ (old.k = "num" /\ old.n # 0) THEN old ELSE N(0)
  IN IF base.k = "str" \/ total.k = "str" THEN Concatenated ELSE N(base.n + total.n)

\* Mutant of DeleteMember: the record found is taken out of the roster instead
\* of being blanked; the donation tree and the counters are left alone.
DeleteMemberRemovesRow(mem, don, add, req) ==
  IF ~Truthy(req.rollNo)
  THEN [status |-> 400, members |-> mem, donations |-> don, additional |-> add,
        totalRemoved |-> N(0)]
  ELSE LET roll == ParseInt(req.rollNo)
           Matches(m) == SameNumber(ParseInt(m.roll_no), roll)
           index == FindIndex({i \in 1..Len(mem) : Matches(mem[i])})
       IN IF index = 0
          THEN [status |-> 404, members |-> mem, donations |-> don, additional |-> add,
                totalRemoved |-> N(0)]
          ELSE [status |-> 200,
                members |-> SubSeq(mem, 1, index - 1) \o SubSeq(mem, index + 1, Len(mem)),
                donations |-> don, additional |-> add, totalRemoved |-> N(0)]

\* POST /delete-member: the response status, the three documents afterwards
\* and the total the response reports.
DeleteMember(mem, don, add, req) ==
  IF ~Truthy(req.rollNo)
  THEN [status |-> 400, members |-> mem, donations |-> don, additional |-> add,
        totalRemoved |-> N(0)]
  ELSE LET roll == ParseInt(req.rollNo)
           Matches(m) == SameNumber(ParseInt(m.roll_no), roll)
           index == FindIndex({i \in 1..Len(mem) : Matches(mem[i])})
       IN IF index = 0
          THEN [status |-> 404, members |-> mem, donations |-> don, additional |-> add,
                totalRemoved |-> N(0)]
          ELSE LET hit == {e \in DonationEntries(don) : KeyIsRollNo(e[3], req.rollNo)}
                   total == TotalRemoved(don, hit, N(0))
               IN [status |-> 200,
                   members |-> [mem EXCEPT ![index] =
                                  [@ EXCEPT !.name = "", !.last_name = "",
                                            !.phone_no = "", !.address = ""]],
                   donations |-> WithoutEntries(don, hit),
                   additional |-> Put(add, "donatedRemoved", AddRemoved(add, total)),
                   totalRemoved |-> total]

\* The file name multer stores an uploaded image under: the roll number and the
\* extension of the upload.
UploadName(req) == ToKey(req.roll_no) \o <<".", "j", "p", "g">>

\* POST /edit-member of server.js: an upsert by parseInt(roll_no).
EditMember(mem, req) ==
  IF ~Truthy(req.roll_no) THEN [status |-> 400, members |-> mem]
  ELSE LET Matches(m) == SameNumber(ParseInt(m.roll_no), ParseInt(req.roll_no))
           index == FindIndex({i \in 1..Len(mem) : Matches(mem[i])})
       IN IF index = 0
          THEN [status |-> 201,
                members |-> Append(mem, Member(req.roll_no, req.name, req.last_name,
                                               req.phone_no, req.address,
                                               IF req.file THEN UploadName(req) ELSE <<>>))]
          ELSE [status |-> 200,
                members |-> [mem EXCEPT ![index] =
                  [@ EXCEPT !.name = IF req.name # "" THEN req.name ELSE @,
                            !.last_name = IF req.last_name # "" THEN req.last_name ELSE @,
                            !.phone_no = IF req.phone_no # "" THEN req.phone_no ELSE @,
                            !.address = IF req.address # "" THEN req.address ELSE @,
                            !.img = IF req.file THEN UploadName(req) ELSE @]]]

\* POST /edit-member of part_000: an update of the record whose roll_no is
\* strictly equal to the one sent, 404 when there is none. It reads the body's
\* name and phone, and stores the upload's path under image.
EditMemberExtended(mem, req) ==
  IF ~Truthy(req.roll_no) THEN [status |-> 400, members |-> mem]
  ELSE LET Matches(m) == m.roll_no = req.roll_no
           index == FindIndex({i \in 1..Len(mem) : Matches(mem[i])})
       IN IF index = 0 THEN [status |-> 404, members |-> mem]
          ELSE LET named == IF req.name # "" THEN Put(mem[index], "name", req.name)
                            ELSE mem[index]
                   phoned == IF req.phone # "" THEN Put(named, "phone", req.phone)
                             ELSE named
                   imaged == IF req.file
                             THEN Put(phoned, "image",
                                      <<"/", "i", "m", "a", "g", "e", "s", "/">> \o UploadName(req))
                             ELSE phoned
               IN [status |-> 200, members |-> [mem EXCEPT ![index] = imaged]]

\* -------------------------------------------------------------- summary

\* Number(x || 0) of a stored number: 0 for null.
NumberOr0(x) == IF x.k = "num" THEN x.n ELSE 0

\* totalDonations and totalFines after the loop of /overall-summary over the
\* entries S: a number leaf adds to the donations, an object leaf adds its
\* donation to the donations and its fine to the fines, null adds nothing.
RECURSIVE SumLedger(_, _, _)
SumLedger(data, S, acc) ==
  IF S = {} THEN acc
  ELSE LET e == CHOOSE x \in S : TRUE
           value == data[e[1]][e[2]][e[3]]
           next == CASE value.shape = "number" ->
                          [acc EXCEPT !.totalDonations = @ + value.n]
                     [] value.shape = "object" ->
                          [acc EXCEPT !.totalDonations = @ + NumberOr0(value.donation),
                                      !.totalFines = @ + NumberOr0(value.fine)]
                     [] OTHER -> acc
       IN SumLedger(data, S \ {e}, next)

\* list.reduce((sum, exp) => sum + Number(exp.amount || 0), 0), from item i on.
RECURSIVE Reduce(_, _, _)
Reduce(list, i, sum) ==
  IF i > Len(list) THEN sum ELSE Reduce(list, i + 1, sum + list[i].amount)

\* totalExpenses after the loop of /overall-summary over the (year, month)
\* nodes S of expensesData[0].
RECURSIVE SumExpenses(_, _, _)
SumExpenses(root, S, acc) ==
  IF S = {} THEN acc
  ELSE LET node == CHOOSE x \in S : TRUE
       IN SumExpenses(root, S \ {node}, acc + Reduce(root[node[1]][node[2]], 1, 0))

\* Mutant of OverallSummary: the fines are added to totalDonations as well as
\* to totalFines.
OverallSummaryFinesInDonations(don, exp) ==
  LET ledger == SumLedger(don, DonationEntries(don), [totalDonations |-> 0, totalFines |-> 0])
      totalExpenses ==
        IF Len(exp) > 0
        THEN SumExpenses(exp[1], UNION {{<<y, m>> : m \in DOMAIN exp[1][y]} : y \in DOMAIN exp[1]}, 0)
        ELSE 0
  IN [totalDonations |-> ledger.totalDonations + ledger.totalFines,
      totalFines |-> ledger.totalFines,
      totalExpenses |-> totalExpenses,
      netAmount |-> ledger.totalDonations + ledger.totalFines + ledger.totalFines
                      - totalExpenses]

\* GET /overall-summary: the data of the response.
OverallSummary(don, exp) ==
  LET ledger == SumLedger(don, DonationEntries(don), [totalDonations |-> 0, totalFines |-> 0])
      totalExpenses ==
        IF Len(exp) > 0
        THEN SumExpenses(exp[1], UNION {{<<y, m>> : m \in DOMAIN exp[1][y]} : y \in DOMAIN exp[1]}, 0)
        ELSE 0
  IN [totalDonations |-> ledger.totalDonations,
      totalFines |-> ledger.totalFines,
      totalExpenses |-> totalExpenses,
      netAmount |-> ledger.totalDonations + ledger.totalFines - totalExpenses]

\* --------------------------------------------------------------- backup

\* existingFiles.length >= 5: the number of archives from which a firing
\* deletes one before it writes.
RetentionThreshold == 5

\* existingFiles[0] after the sort by creation time, oldest first.
OldestFile(files) == CHOOSE f \in files : \A g \in files : f <= g

\* Mutant of EvictedBy: the archive deleted is the newest.
EvictedByNewest(files) ==
  IF Cardinality(files) >= RetentionThreshold
  THEN {CHOOSE f \in files : \A g \in files : f >= g} ELSE {}

\* The archives createBackupZip deletes from a folder holding files: the
\* oldest when there are RetentionThreshold or more, none otherwise.
EvictedBy(files) ==
  IF Cardinality(files) >= RetentionThreshold THEN {OldestFile(files)} ELSE {}

\* createBackupZip(targetFolder, label): the folder afterwards, from a folder
\* holding files, at the given time.
CreateBackupZip(files, time) == (files \ EvictedBy(files)) \cup {time}

\* ------------------------------------------------------- request inputs

\* Roll numbers as clients send them: a number, the same number as a string,
\* another number.
RollValues == {Num(7), Str(<<"7">>), Num(8)}

\* The roll-number lists of at most n items.
RECURSIVE ListsUpTo(_, _)
ListsUpTo(S, n) ==
  IF n = 0 THEN {<<>>}
  ELSE LET shorter == ListsUpTo(S, n - 1)
       IN shorter \cup {Append(l, x) : l \in {m \in shorter : Len(m) = n - 1}, x \in S}

\* Bodies of /update-attendance and /delete-attendance that pass validation.
ValidAttendanceRequests ==
  [year : {Num(2024)}, month : {"March", "April"}, day : {Num(1)},
   isArray : {TRUE}, attendance : ListsUpTo(RollValues, MaxList)]

\* Bodies that do not: no year, no month, a month that is no month name, day 0,
\* an attendance field that is not an array.
InvalidAttendanceRequests ==
  LET ok == [year |-> Num(2024), month |-> "March", day |-> Num(1),
             isArray |-> TRUE, attendance |-> <<Num(7)>>]
  IN {[ok EXCEPT !.year = Undef], [ok EXCEPT !.month = ""],
      [ok EXCEPT !.month = "march"], [ok EXCEPT !.day = Num(0)],
      [ok EXCEPT !.isArray = FALSE, !.attendance = <<>>]}

AttendanceRequests == ValidAttendanceRequests \cup InvalidAttendanceRequests

\* Bodies of /add-expense: two amounts under two months, and bodies that do not
\* pass validation (an amount sent as a string, no description, no month, no year).
ExpenseAddRequests ==
  LET ok == [year |-> Num(2024), month |-> "March", amount |-> Num(10),
             description |-> "rice"]
  IN [year : {Num(2024)}, month : {"March", "April"}, amount : {Num(10), Num(20)},
      description : {"rice"}]
     \cup {[ok EXCEPT !.amount = Str(<<"1", "0">>)], [ok EXCEPT !.amount = Undef],
           [ok EXCEPT !.description = ""], [ok EXCEPT !.month = ""],
           [ok EXCEPT !.year = Undef]}

\* Bodies of /delete-expense: every index from -1 to one past the longest list,
\* and bodies that do not pass validation.
ExpenseDeleteRequests ==
  LET ok == [year |-> Num(2024), month |-> "March", index |-> Num(0)]
  IN [year : {Num(2024)}, month : {"March", "April"},
      index : {Num(i) : i \in -1..MaxExpenses}]
     \cup {[ok EXCEPT !.index = Str(<<"0">>)], [ok EXCEPT !.index = Undef],
           [ok EXCEPT !.month = ""], [ok EXCEPT !.year = Undef]}

\* The year, month and roll number of the bodies of /update-donations: roll
\* number 7 under two months, sent as a number and as a string, and roll
\* number 8.
DonationCoordinates ==
  {c \in [year : {Num(2024)}, month : {"March", "April"},
          rollNo : {Num(7), Str(<<"7">>), Str(<<"8">>)}] :
     c.rollNo = Num(7) \/ c.month = "March"}

\* The amounts: a negative number, a numeric string, Infinity.

DonationAmounts == {Num(-2), Str(<<"3">>), Inf}

\* The bodies a client of the given variant sends; the legacy handler reads no
\* type. With them bodies that do not pass validation: an amount that is no
\* number, no amount, roll number 0, no month, and for the extended handler no
\* type and a type that is neither "donation" nor "fine".
DonationRequests(v) ==
  LET types == IF v = "legacy" THEN {""} ELSE {"donation", "fine"}
      ok == [year |-> Num(2024), month |-> "March", rollNo |-> Num(7),
             amount |-> Num(-2), type |-> IF v = "legacy" THEN "" ELSE "donation"]
  IN {[year |-> c.year, month |-> c.month, rollNo |-> c.rollNo, amount |-> a, type |-> t] :
        c \in DonationCoordinates, a \in DonationAmounts, t \in types}
     \cup {[ok EXCEPT !.amount = Str(<<"3", "a">>)], [ok EXCEPT !.amount = Undef],
           [ok EXCEPT !.rollNo = Num(0)], [ok EXCEPT !.month = ""]}
     \cup (IF v = "legacy" THEN {} ELSE {[ok EXCEPT !.type = ""], [ok EXCEPT !.type = "tip"]})

\* The bodies of /update-donations sent next to the roster endpoints: roll
\* number 7 under two months and roll number 8, a negative and a positive
\* amount.
MemberDonationRequests(v) ==
  {req \in DonationRequests(v) :
     /\ req.amount \in {Num(-2), Str(<<"3">>)}
     /\ req.rollNo \in {Num(7), Str(<<"8">>)}
     /\ ~DonationInvalid(req) /\ (v = "legacy" \/ req.type \in {"donation", "fine"})}

\* Bodies of /delete-member: the roll number as a number, as a numeric string,
\* as a string that is no number, a roll number nobody has, and none.
DeleteMemberRequests ==
  {[rollNo |-> v] : v \in {Num(7), Str(<<"7">>), Str(<<"a">>), Num(9), Undef}}

\* Bodies of /edit-member, which arrives as a multipart form, so every field
\* is a string: a numeric roll number and one that is no number, with all
\* personal fields; one body with an image and no other field; one without a
\* roll number.
EditMemberRequests ==
  LET full == [roll_no |-> Str(<<"7">>), name |-> "Asha", last_name |-> "Kaur",
               phone_no |-> "98", address |-> "Lane 1", phone |-> "98", file |-> FALSE]
  IN {[full EXCEPT !.roll_no = r] : r \in {Str(<<"7">>), Str(<<"a">>)}}
     \cup {[full EXCEPT !.name = "", !.last_name = "", !.phone_no = "", !.address = "",
                        !.phone = "", !.file = TRUE],
           [full EXCEPT !.roll_no = Undef]}

\* The rosters a deployment starts with: none, or one member whose roll number
\* the file holds as a number.
InitialRosters ==
  {<<>>, <<Member(Num(7), "Ravi", "Singh", "97", "Lane 2", <<>>)>>}

\* The bodies of /update-donations sent before a summary is read: 500, 300 and
\* 100 for roll number 7, and Infinity for roll number 8.
SummaryDonationRequests(v) ==
  LET types == IF v = "legacy" THEN {""} ELSE {"donation", "fine"}
  IN {[year |-> Num(2024), month |-> "March", rollNo |-> Num(7), amount |-> a, type |-> t] :
        a \in {Num(500), Num(300), Num(100)}, t \in types}
     \cup {[year |-> Num(2024), month |-> "March", rollNo |-> Num(8), amount |-> Inf,
            type |-> t] : t \in types \ {"fine"}}

\* The bodies of /add-expense and /delete-expense sent before a summary is
\* read: both amounts under one month, and the first position of its list.
SummaryExpenseAddRequests ==
  {req \in ExpenseAddRequests : req.month = "March" /\ ~AddExpenseInvalid(req)}

SummaryExpenseDeleteRequests ==
  {req \in ExpenseDeleteRequests : req.month = "March" /\ req.index = Num(0)}

\* The donation ledgers a deployment holds when the summary endpoint is put
\* in front of it: none, one written by server.js (a number leaf), one
\* written by part_000 (an object leaf).
LedgersInUse ==
  {EmptyObj,
   WithLeaf(EmptyObj, <<"2", "0", "2", "3">>, "April", <<"9">>, NumberLeaf(40)),
   WithLeaf(EmptyObj, <<"2", "0", "2", "3">>, "April", <<"9">>, ObjectLeaf(N(5), N(1)))}

\* The bodies of /update-donations that clients send at the same time: roll
\* number 7 with the amounts 5 and "3" under one month, and with the amount 5
\* and without an amount under another.
ConcurrentDonationRequests(v) ==
  LET types == IF v = "legacy" THEN {""} ELSE {"donation", "fine"}
  IN {[year |-> Num(2024), month |-> "March", rollNo |-> Num(7), amount |-> a, type |-> t] :
        a \in {Num(5), Str(<<"3">>)}, t \in types}
     \cup {[year |-> Num(2024), month |-> "April", rollNo |-> Num(7), amount |-> a,
            type |-> t] : a \in {Num(5), Undef}, t \in types \ {"fine"}}

\* The bodies sent to every endpoint when the rejections are looked at: for
\* each endpoint the bodies it rejects, and one body that mark, accumulate,
\* add-expense and upsert accept.
RejectedAttendanceRequests ==
  InvalidAttendanceRequests
    \cup {[year |-> Num(2024), month |-> "March", day |-> Num(1), isArray |-> TRUE,
           attendance |-> <<Num(7)>>]}

RejectedDonationRequests(v) ==
  {req \in DonationRequests(v) :
     \/ DonationInvalid(req)
     \/ (v = "extended" /\ req.type \notin {"donation", "fine"})
     \/ (req.rollNo = Num(7) /\ req.month = "March" /\ req.amount = Str(<<"3">>)
           /\ req.type # "fine")}

RejectedExpenseAddRequests ==
  {req \in ExpenseAddRequests :
     AddExpenseInvalid(req) \/ (req.month = "March" /\ req.amount = Num(10))}

RejectedExpenseDeleteRequests ==
  {req \in ExpenseDeleteRequests :
     DeleteExpenseInvalid(req) \/ (req.month = "March" /\ req.index = Num(-1))}

RejectedEditMemberRequests ==
  {req \in EditMemberRequests : req.roll_no \in {Undef, Str(<<"7">>)} /\ ~req.file}

\* The bodies of /update-donations for the coordinate that LedgersInUse
\* holds a leaf for, and for one it holds none for.
MixedDonationRequests(v) ==
  LET types == IF v = "legacy" THEN {""} ELSE {"donation", "fine"}
  IN {[year |-> Num(2023), month |-> m, rollNo |-> Num(9), amount |-> a, type |-> t] :
        m \in {"April", "May"}, a \in {Num(5), Str(<<"3">>)}, t \in types}

\* ------------------------------------------------------------- actions

NoRequest == [op |-> "none", status |-> 0]

\* The three retention buckets of backup/, and the buckets with no archive.
Buckets == {"daily", "weekly", "monthly"}

NoBackups == [b \in Buckets |-> {}]

\* The (year, month, day, roll number) entries of an attendance document.
Present(data) ==
  IF Len(data) = 0 THEN {}
  ELSE UNION {UNION {UNION {{<<y, m, d, k>> : k \in DOMAIN data[1][y][m][d]} :
                d \in DOMAIN data[1][y][m]} : m \in DOMAIN data[1][y]} : y \in DOMAIN data[1]}

\* The (year, month, day) nodes of an attendance document.
DayNodes(data) ==
  IF Len(data) = 0 THEN {}
  ELSE UNION {UNION {{<<y, m, d>> : d \in DOMAIN data[1][y][m]} :
                m \in DOMAIN data[1][y]} : y \in DOMAIN data[1]}

\* The date a request body names, as the keys of the document.
DateOf(req) == <<ToKey(req.year), req.month, ToKey(req.day)>>

\* The roll-number keys a request body lists.
KeysOf(req) == {ToKey(req.attendance[i]) : i \in 1..Len(req.attendance)}

\* The roll-number keys present on a date.
PresentOn(data, date) == {e[4] : e \in {x \in Present(data) : <<x[1], x[2], x[3]>> = date}}

NoMark == [active |-> FALSE, data |-> <<>>]

\* The request before req marked one roll number that was absent on that date,
\* and req unmarks that roll number on that date.
UnmarksLastMark(req) ==
  /\ last.op = "update-attendance" /\ last.status = 200
  /\ Len(last.req.attendance) = 1 /\ Len(req.attendance) = 1
  /\ ~AttendanceInvalid(req) /\ monthNameToNumber(req.month) # 0
  /\ DateOf(req) = DateOf(last.req) /\ KeysOf(req) = KeysOf(last.req)
  /\ KeysOf(req) \cap PresentOn(prevAttendance, DateOf(req)) = {}

\* A client posts one of the bodies R to /update-attendance.
MarkAttendance(R) ==
  \E req \in R :
    LET r == UpdateAttendance(attendance, req) IN
      /\ attendance' = r.data
      /\ prevAttendance' = attendance
      /\ beforeMark' = NoMark
      /\ last' = [op |-> "update-attendance", req |-> req, status |-> r.status,
                  deleted |-> <<>>]
      /\ UNCHANGED <<variant, backups, now, inflight, members, donations, expenses, additional, calls, accepted>>

\* A client posts to /update-attendance.
PostUpdateAttendance == MarkAttendance(AttendanceRequests)

\* A client posts one of the bodies R to /delete-attendance.
UnmarkAttendance(R) ==
  \E req \in R :
    LET r == DeleteAttendance(attendance, req) IN
      /\ attendance' = r.data
      /\ prevAttendance' = attendance
      /\ beforeMark' = IF UnmarksLastMark(req)
                       THEN [active |-> TRUE, data |-> prevAttendance] ELSE NoMark
      /\ last' = [op |-> "delete-attendance", req |-> req, status |-> r.status,
                  deleted |-> r.deleted]
      /\ UNCHANGED <<variant, backups, now, inflight, members, donations, expenses, additional, calls, accepted>>

\* A client posts to /delete-attendance.
PostDeleteAttendance == UnmarkAttendance(AttendanceRequests)

\* The expense list of a (year, month) node, <<>> when there is none.
ExpenseList(data, y, m) ==
  IF Len(data) = 0 \/ y \notin DOMAIN data[1] \/ m \notin DOMAIN data[1][y] THEN <<>>
  ELSE data[1][y][m]

\* The (year, month) nodes of an expense document.
ExpenseNodes(data) ==
  IF Len(data) = 0 THEN {}
  ELSE UNION {{<<y, m>> : m \in DOMAIN data[1][y]} : y \in DOMAIN data[1]}

\* A client posts one of the bodies R to /add-expense; the model keeps each
\* list within MaxExpenses.
AppendExpense(R) ==
  \E req \in R :
    LET r == AddExpense(expenses, req) IN
      /\ Len(ExpenseList(expenses, ToKey(req.year), req.month)) < MaxExpenses
      /\ expenses' = r.data
      /\ last' = [op |-> "add-expense", req |-> req, status |-> r.status, error |-> ""]
      /\ UNCHANGED <<variant, backups, now, inflight, members, attendance, donations, additional, calls,
                     accepted, prevAttendance, beforeMark>>

\* A client posts to /add-expense.
PostAddExpense == AppendExpense(ExpenseAddRequests)

\* A client posts one of the bodies R to /delete-expense, a route that only
\* server.js has.
RemoveExpense(R) ==
  \E req \in R :
    LET r == DeleteExpense(expenses, req) IN
      /\ variant = "legacy"
      /\ expenses' = r.data
      /\ last' = [op |-> "delete-expense", req |-> req, status |-> r.status,
                  error |-> r.error]
      /\ UNCHANGED <<variant, backups, now, inflight, members, attendance, donations, additional, calls,
                     accepted, prevAttendance, beforeMark>>

\* A client posts to /delete-expense.
PostDeleteExpense == RemoveExpense(ExpenseDeleteRequests)

\* The running total a request adds to: "total" for the legacy handler, the
\* type of the request for the extended one.
KindOf(v, req) == IF v = "legacy" THEN "total" ELSE req.type

\* The coordinate a request adds to, as the keys of the document and the kind.
CoordinateOf(v, req) == <<ToKey(req.year), req.month, ToKey(req.rollNo), KindOf(v, req)>>

\* The stored running total of a coordinate: the number leaf for "total", the
\* field of the object leaf for "donation" and "fine"; Null for a stored null,
\* and NaN where the document holds no such total.
StoredTotal(data, c) ==
  LET leaf == LeafAt(data, c[1], c[2], c[3])
  IN CASE c[4] = "total" /\ leaf.shape = "number" -> N(leaf.n)
       [] c[4] = "total" /\ leaf.shape = "null" -> Null
       [] c[4] # "total" /\ leaf.shape = "object" -> leaf[c[4]]
       [] OTHER -> NaN

\* calls after one more accepted request of amount a on coordinate c.
Logged(f, c, a) ==
  LET old == Get(f, c, [n |-> 0, sum |-> N(0)])
  IN Put(f, c, [n |-> old.n + 1,
                sum |-> IF old.sum.k = "inf" \/ a.k = "inf" THEN Infinity
                        ELSE N(old.sum.n + a.n)])

\* A client posts one of the bodies R to /update-donations; the model stops
\* after MaxCalls accepted requests.
Accumulate(R) ==
  \E req \in R :
    LET r == IF variant = "legacy" THEN UpdateDonationsLegacy(donations, req)
             ELSE UpdateDonationsExtended(donations, req)
    IN /\ accepted < MaxCalls
       /\ donations' = r.data
       /\ calls' = IF r.status = 200
                   THEN Logged(calls, CoordinateOf(variant, req), ToNumber(req.amount))
                   ELSE calls
       /\ accepted' = IF r.status = 200 THEN accepted + 1 ELSE accepted
       /\ last' = [op |-> "update-donations", req |-> req, status |-> r.status]
       /\ UNCHANGED <<variant, backups, now, inflight, members, attendance, expenses, additional,
                      prevAttendance, beforeMark>>

\* A client posts to /update-donations.
PostUpdateDonations == Accumulate(DonationRequests(variant))

\* A client posts to /update-donations for a member of the roster or for
\* roll number 8.
PostUpdateDonationsOfMembers == Accumulate(MemberDonationRequests(variant))

\* A client posts to /delete-member.
PostDeleteMember ==
  \E req \in DeleteMemberRequests :
    LET r == DeleteMember(members, donations, additional, req) IN
      /\ members' = r.members
      /\ donations' = r.donations
      /\ additional' = r.additional
      /\ last' = [op |-> "delete-member", req |-> req, status |-> r.status,
                  totalRemoved |-> r.totalRemoved]
      /\ calls' = [c \in {x \in DOMAIN calls :
                             <<x[1], x[2], x[3]>> \in DonationEntries(r.donations)} |->
                     calls[c]]
      /\ UNCHANGED <<variant, backups, now, inflight, attendance, expenses, accepted, prevAttendance, beforeMark>>

\* A client posts one of the bodies R to /edit-member; the model keeps the
\* roster within MaxMembers.
Upsert(R) ==
  \E req \in R :
    LET r == IF variant = "legacy" THEN EditMember(members, req)
             ELSE EditMemberExtended(members, req)
    IN /\ Len(r.members) <= MaxMembers
       /\ members' = r.members
       /\ last' = [op |-> "edit-member", req |-> req, status |-> r.status]
       /\ UNCHANGED <<variant, backups, now, inflight, attendance, donations, expenses, additional, calls,
                      accepted, prevAttendance, beforeMark>>

\* A client posts to /edit-member.
PostEditMember == Upsert(EditMemberRequests)

\* A client posts to /edit-member for roll number 7, or without a roll number.
PostEditMemberOfDonor ==
  Upsert({req \in EditMemberRequests : req.roll_no \in {Str(<<"7">>), Undef} /\ ~req.file})

\* The documents of a fresh deployment: no file yet, so every handler reads its
\* default.
InitDocs ==
  /\ members = <<>>
  /\ attendance = <<EmptyObj>>
  /\ donations = EmptyObj
  /\ expenses = <<>>
  /\ additional = EmptyObj
  /\ calls = EmptyObj
  /\ accepted = 0
  /\ prevAttendance = <<EmptyObj>>
  /\ beforeMark = NoMark
  /\ last = NoRequest
  /\ backups = NoBackups
  /\ now = 0
  /\ inflight = {}

\* The attendance endpoints of server.js.
InitAttendance == variant = "legacy" /\ InitDocs

NextAttendance == PostUpdateAttendance \/ PostDeleteAttendance

SpecAttendance == InitAttendance /\ [][NextAttendance]_vars

\* The expense endpoints of server.js.
InitExpenses == variant = "legacy" /\ InitDocs

NextExpenses == PostAddExpense \/ PostDeleteExpense

SpecExpenses == InitExpenses /\ [][NextExpenses]_vars

\* The accumulate endpoint of either variant, on a donation tree that starts
\* empty.
InitDonations == variant \in {"legacy", "extended"} /\ InitDocs

NextDonations == PostUpdateDonations

SpecDonations == InitDonations /\ [][NextDonations]_vars

\* The member and donation endpoints of either variant, from a roster with
\* distinct roll numbers.
InitMembers ==
  /\ variant \in {"legacy", "extended"}
  /\ members \in InitialRosters
  /\ attendance = <<EmptyObj>>
  /\ donations = EmptyObj
  /\ expenses = <<>>
  /\ additional = EmptyObj
  /\ calls = EmptyObj
  /\ accepted = 0
  /\ prevAttendance = <<EmptyObj>>
  /\ beforeMark = NoMark
  /\ last = NoRequest
  /\ backups = NoBackups
  /\ now = 0
  /\ inflight = {}

NextMembers == PostUpdateDonationsOfMembers \/ PostDeleteMember \/ PostEditMemberOfDonor

SpecMembers == InitMembers /\ [][NextMembers]_vars

\* The roster endpoints alone: upserts and soft deletes.
NextRoster == PostDeleteMember \/ PostEditMember

SpecRoster == InitMembers /\ [][NextRoster]_vars

\* A client gets /overall-summary.
GetOverallSummary ==
  /\ last' = [op |-> "overall-summary", status |-> 200,
              data |-> OverallSummary(donations, expenses)]
  /\ UNCHANGED <<variant, backups, now, inflight, members, attendance, donations, expenses, additional, calls,
                 accepted, prevAttendance, beforeMark>>

\* The accumulate and expense endpoints of either variant and the summary read
\* after them, on a ledger that is empty or holds one older leaf.
InitSummary ==
  /\ variant \in {"legacy", "extended"}
  /\ members = <<>>
  /\ attendance = <<EmptyObj>>
  /\ donations \in LedgersInUse
  /\ expenses = <<>>
  /\ additional = EmptyObj
  /\ calls = EmptyObj
  /\ accepted = 0
  /\ prevAttendance = <<EmptyObj>>
  /\ beforeMark = NoMark
  /\ last = NoRequest
  /\ backups = NoBackups
  /\ now = 0
  /\ inflight = {}

NextSummary ==
  \/ Accumulate(SummaryDonationRequests(variant))
  \/ AppendExpense(SummaryExpenseAddRequests)
  \/ RemoveExpense(SummaryExpenseDeleteRequests)
  \/ GetOverallSummary

SpecSummary == InitSummary /\ [][NextSummary]_vars

\* The timer of one bucket fires and createBackupZip runs for its folder; the
\* model stops after MaxFirings firings.
BackupFires(label) ==
  /\ now < MaxFirings
  /\ now' = now + 1
  /\ backups' = [backups EXCEPT ![label] = CreateBackupZip(@, now + 1)]
  /\ last' = [op |-> "backup", status |-> 0, label |-> label,
              evicted |-> EvictedBy(backups[label])]
  /\ UNCHANGED <<variant, members, attendance, donations, expenses, additional, calls,
                 accepted, prevAttendance, beforeMark, inflight>>

\* cron.schedule("0 3 * * *"): the daily backup.
DailyBackup == BackupFires("daily")

\* cron.schedule("0 4 * * 1"): the weekly backup.
WeeklyBackup == BackupFires("weekly")

\* cron.schedule("0 5 1 * *"): the monthly backup.
MonthlyBackup == BackupFires("monthly")

\* The backup timers of server.js, from empty buckets.
InitBackup == variant = "legacy" /\ InitDocs

NextBackup == DailyBackup \/ WeeklyBackup \/ MonthlyBackup

SpecBackup == InitBackup /\ [][NextBackup]_vars

\* Mutant of DocumentRead: the handler works on the document as it was when
\* the request arrived.
DocumentReadAtArrival(entry, current) == entry.snapshot

\* let data = readJSON(donationPath, {}): the document a handler works on is
\* the one on disk when the handler runs, whatever it was when the request
\* arrived.
DocumentRead(entry, current) == current

\* The server receives a request to /update-donations while others may be in
\* flight: express.json() reads its body and the handler is queued. The entry
\* keeps, as history, the document at arrival and the number and the sum of
\* the amounts accepted for its coordinate since.
ReceiveUpdateDonations ==
  \E req \in ConcurrentDonationRequests(variant) :
    /\ Cardinality(inflight) < MaxInFlight
    /\ accepted + Cardinality(inflight) < MaxCalls
    /\ inflight' = inflight \cup
         {[id |-> CHOOSE i \in 1..MaxInFlight : \A e \in inflight : e.id # i,
           req |-> req, snapshot |-> donations, missed |-> 0, since |-> 0]}
    /\ UNCHANGED <<variant, members, attendance, donations, expenses, additional, calls,
                   accepted, prevAttendance, beforeMark, last, backups, now>>

\* The event loop runs the handler of one request in flight. The handler reads
\* with readFileSync and writes with writeFileSync, so it runs from its read to
\* its write without another handler in between.
HandleUpdateDonations ==
  \E entry \in inflight :
    LET data == DocumentRead(entry, donations)
        r == IF variant = "legacy" THEN UpdateDonationsLegacy(data, entry.req)
             ELSE UpdateDonationsExtended(data, entry.req)
        c == CoordinateOf(variant, entry.req)
        amount == ToNumber(entry.req.amount)
    IN /\ donations' = r.data
       /\ calls' = IF r.status = 200 THEN Logged(calls, c, amount) ELSE calls
       /\ accepted' = IF r.status = 200 THEN accepted + 1 ELSE accepted
       /\ inflight' =
            {IF r.status = 200 /\ CoordinateOf(variant, e.req) = c
             THEN [e EXCEPT !.missed = @ + 1, !.since = @ + amount.n] ELSE e :
               e \in inflight \ {entry}}
       /\ last' = [op |-> "update-donations", req |-> entry.req, status |-> r.status,
                   seen |-> StoredTotal(entry.snapshot, c),
                   missed |-> entry.missed, since |-> entry.since]
       /\ UNCHANGED <<variant, members, attendance, expenses, additional,
                      prevAttendance, beforeMark, backups, now>>

\* The accumulate endpoint of either variant under requests that arrive while
\* others are in flight.
InitConcurrent == variant \in {"legacy", "extended"} /\ InitDocs

NextConcurrent == ReceiveUpdateDonations \/ HandleUpdateDonations

SpecConcurrent == InitConcurrent /\ [][NextConcurrent]_vars

\* Every mutating endpoint, under the bodies each rejects and the bodies that
\* fill the documents.
NextValidation ==
  \/ MarkAttendance(RejectedAttendanceRequests)
  \/ UnmarkAttendance(InvalidAttendanceRequests)
  \/ Accumulate(RejectedDonationRequests(variant))
  \/ AppendExpense(RejectedExpenseAddRequests)
  \/ RemoveExpense(RejectedExpenseDeleteRequests)
  \/ Upsert(RejectedEditMemberRequests)
  \/ PostDeleteMember

SpecValidation == InitMembers /\ [][NextValidation]_vars

\* The documents on disk when the process stops inside the handler of
\* /delete-member after written of its three writeJSON calls: members.json is
\* written first, donations.json second, additional.json third.
WrittenBeforeStop(mem, don, add, r, written) ==
  [members |-> IF written >= 1 THEN r.members ELSE mem,
   donations |-> IF written >= 2 THEN r.donations ELSE don,
   additional |-> IF written >= 3 THEN r.additional ELSE add]

\* A client posts to /delete-member and the process stops (it is killed, or
\* the machine loses power) after the first or the second write of the
\* handler; no response is sent.
DeleteMemberInterrupted ==
  \E req \in DeleteMemberRequests, written \in {1, 2} :
    LET r == DeleteMember(members, donations, additional, req)
        disk == WrittenBeforeStop(members, donations, additional, r, written)
    IN /\ r.status = 200
       /\ members' = disk.members
       /\ donations' = disk.donations
       /\ additional' = disk.additional
       /\ last' = [op |-> "delete-member-interrupted", req |-> req, status |-> 0,
                   written |-> written, totalRemoved |-> r.totalRemoved]
       /\ calls' = [c \in {x \in DOMAIN calls :
                              <<x[1], x[2], x[3]>> \in DonationEntries(disk.donations)} |->
                      calls[c]]
       /\ UNCHANGED <<variant, backups, now, inflight, attendance, expenses, accepted,
                      prevAttendance, beforeMark>>

\* The donation and soft-delete endpoints of either variant, with a process
\* that may stop between the writes of a soft delete.
NextCrash == PostUpdateDonationsOfMembers \/ PostDeleteMember \/ DeleteMemberInterrupted

SpecCrash == InitMembers /\ [][NextCrash]_vars

\* The accumulate endpoint of either variant on a ledger that the other
\* variant may have written.
NextMixed == Accumulate(MixedDonationRequests(variant))

SpecMixed == InitSummary /\ [][NextMixed]_vars

\* ------------------------------------------------- claims: attendance

\* C3: when a request marks one roll number that is absent on its date and the
\* next request unmarks that roll number on that date, the unmark succeeds and
\* reports that roll number, and the entries of the document are those it had
\* before the mark: every other roll number of the date and every other date
\* is as it was.
C3_MarkThenUnmark ==
  beforeMark.active =>
    /\ last.status = 200
    /\ last.deleted = last.req.attendance
    /\ Present(attendance) = Present(beforeMark.data)
    /\ KeysOf(last.req) \cap PresentOn(attendance, DateOf(last.req)) = {}

\* A mark then unmark of a roll number whose date holds another roll number,
\* with entries on another date as well.
C3_Witness ==
  /\ beforeMark.active
  /\ PresentOn(attendance, DateOf(last.req)) # {}
  /\ \E e \in Present(attendance) : <<e[1], e[2], e[3]>> # DateOf(last.req)

\* C4: a mark request that repeats the accepted mark request before it leaves
\* the persisted attendance document as that first request left it.
C4_MarkIdempotent ==
  [][(/\ last.op = "update-attendance" /\ last.status = 200
      /\ last'.op = "update-attendance" /\ last'.req = last.req)
     => (last'.status = 200 /\ attendance' = attendance)]_vars

\* A mark of two roll numbers that changed nothing: all were present already.
C4_Witness ==
  /\ last.op = "update-attendance" /\ last.status = 200
  /\ Cardinality(KeysOf(last.req)) = 2
  /\ attendance = prevAttendance

\* C5: an unmark that passes validation answers 404 and leaves the document as
\* it was when its date has no day node or none of its roll numbers is present
\* there; otherwise it answers 200, removes from that date exactly the listed
\* roll numbers that were present, changes no other entry and no day node, and
\* its deleted list holds exactly those roll numbers, each once.
C5_UnmarkOutcome ==
  [][(last'.op = "delete-attendance" /\ last'.status # 400) =>
      LET req == last'.req
          date == DateOf(req)
          hit == KeysOf(req) \cap PresentOn(attendance, date)
      IN IF date \notin DayNodes(attendance) \/ hit = {}
         THEN last'.status = 404 /\ attendance' = attendance /\ last'.deleted = <<>>
         ELSE /\ last'.status = 200
              /\ Present(attendance') =
                   Present(attendance) \ {<<date[1], date[2], date[3], k>> : k \in hit}
              /\ DayNodes(attendance') = DayNodes(attendance)
              /\ {ToKey(last'.deleted[i]) : i \in 1..Len(last'.deleted)} = hit
              /\ Len(last'.deleted) = Cardinality(hit)
              /\ \A i \in 1..Len(last'.deleted) :
                   \E j \in 1..Len(req.attendance) : req.attendance[j] = last'.deleted[i]
     ]_vars

\* An unmark of two roll numbers of which one was present: it succeeded and
\* reported that one.
C5_Witness ==
  /\ last.op = "delete-attendance" /\ last.status = 200
  /\ Cardinality(KeysOf(last.req)) = 2
  /\ Len(last.deleted) = 1
  /\ PresentOn(attendance, DateOf(last.req)) = {}

\* --------------------------------------------------- claims: expenses

\* The list l without its element at zero-based position i.
WithoutPosition(l, i) == SubSeq(l, 1, i) \o SubSeq(l, i + 2, Len(l))

\* C6: a delete-expense whose (year, month) node exists and whose index i is
\* within the list, 0 <= i < n, succeeds and leaves under that node the list
\* without its element at position i: n - 1 elements in their former order;
\* the list of every other (year, month) node is as it was.
C6_DeleteByIndex ==
  [][(/\ last'.op = "delete-expense"
      /\ ~DeleteExpenseInvalid(last'.req)
      /\ <<ToKey(last'.req.year), last'.req.month>> \in ExpenseNodes(expenses)
      /\ last'.req.index.n >= 0
      /\ last'.req.index.n < Len(ExpenseList(expenses, ToKey(last'.req.year), last'.req.month)))
     => LET y == ToKey(last'.req.year)
            m == last'.req.month
            old == ExpenseList(expenses, y, m)
            new == ExpenseList(expenses', y, m)
        IN /\ last'.status = 200
           /\ Len(new) = Len(old) - 1
           /\ new = WithoutPosition(old, last'.req.index.n)
           /\ ExpenseNodes(expenses') = ExpenseNodes(expenses)
           /\ \A node \in ExpenseNodes(expenses) \ {<<y, m>>} :
                ExpenseList(expenses', node[1], node[2]) =
                  ExpenseList(expenses, node[1], node[2])
     ]_vars

\* The middle element of a list of three different-looking elements was
\* deleted, with a list under the other month.
C6_Witness ==
  /\ last.op = "delete-expense" /\ last.status = 200 /\ last.req.index = Num(1)
  /\ LET l == ExpenseList(expenses, ToKey(last.req.year), last.req.month)
     IN Len(l) = 2 /\ l[1] # l[2]
  /\ Cardinality(ExpenseNodes(expenses)) = 2
  /\ \A node \in ExpenseNodes(expenses) : ExpenseList(expenses, node[1], node[2]) # <<>>

\* C7: a delete-expense that passes validation answers 404 when the
\* (year, month) node is absent, and answers 400 "Invalid expense index." when
\* the node exists and the index is below 0 or not below the length of its
\* list (any index, when the list is empty); in both cases the expense
\* document is as it was.
C7_DeleteRejected ==
  [][(last'.op = "delete-expense" /\ ~DeleteExpenseInvalid(last'.req)) =>
      LET y == ToKey(last'.req.year)
          m == last'.req.month
          i == last'.req.index.n
      IN /\ <<y, m>> \notin ExpenseNodes(expenses)
              => last'.status = 404 /\ expenses' = expenses
         /\ (<<y, m>> \in ExpenseNodes(expenses)
                /\ (i < 0 \/ i >= Len(ExpenseList(expenses, y, m))))
              => /\ last'.status = 400
                 /\ last'.error = "Invalid expense index."
                 /\ expenses' = expenses
     ]_vars

\* Index 0 was refused on a list that earlier deletes had emptied.
C7_Witness ==
  /\ last.op = "delete-expense" /\ last.status = 400
  /\ last.error = "Invalid expense index." /\ last.req.index = Num(0)
  /\ <<ToKey(last.req.year), last.req.month>> \in ExpenseNodes(expenses)
  /\ ExpenseList(expenses, ToKey(last.req.year), last.req.month) = <<>>

\* -------------------------------------------------- claims: donations

\* C1: on a tree that starts empty, the stored running total of every
\* coordinate equals the sum of the amounts of the accumulate requests accepted
\* for it (a sum, so the same for every order of those requests).
C1_TotalIsSum ==
  \A c \in DOMAIN calls : StoredTotal(donations, c) = calls[c].sum

\* The same for finite amounts only: the coordinates that were sent no Infinity.
C1_FiniteTotalIsSum ==
  \A c \in DOMAIN calls : calls[c].sum.k = "num" => StoredTotal(donations, c) = calls[c].sum

\* What a reader of the document takes a stored total for: 0 for null and for
\* a total that is not there.
AsAmount(x) == IF x.k = "num" THEN x.n ELSE 0

\* The coordinates of a donation tree, with each kind of total.
Coordinates(data) ==
  UNION {UNION {{<<y, m, r, kind>> : r \in DOMAIN data[y][m], kind \in {"total", "donation", "fine"}} :
           m \in DOMAIN data[y]} : y \in DOMAIN data}

\* C8: no accepted accumulate leaves the stored running total of a coordinate
\* lower than it was before the request.
C8_TotalsNeverDecrease ==
  [][(last'.op = "update-donations" /\ last'.status = 200) =>
      \A c \in Coordinates(donations) \cup Coordinates(donations') :
        AsAmount(StoredTotal(donations', c)) >= AsAmount(StoredTotal(donations, c))]_vars

\* ---------------------------------------------------- claims: members

\* The amount a leaf holds: the number of a number leaf, the donation and fine
\* of an object leaf.
LeafAmount(leaf) ==
  CASE leaf.shape = "number" -> leaf.n
    [] leaf.shape = "object" -> AsAmount(leaf.donation) + AsAmount(leaf.fine)
    [] OTHER -> 0

\* The sum of the amounts of the entries S of a donation tree.
RECURSIVE SumOfEntries(_, _)
SumOfEntries(data, S) ==
  IF S = {} THEN 0
  ELSE LET e == CHOOSE x \in S : TRUE
       IN LeafAmount(LeafAt(data, e[1], e[2], e[3])) + SumOfEntries(data, S \ {e})

\* The entries of a donation tree under the roll number v.
EntriesOfRoll(data, v) ==
  {e \in DonationEntries(data) : SameNumber(ParseIntStr(e[3]), ParseInt(v))}

\* donatedRemoved of the counters document, 0 when it has none.
DonatedRemoved(doc) == Get(doc, "donatedRemoved", N(0))

\* C2: after a soft delete that found its member, the donation tree holds no
\* entry under that roll number, every entry of another roll number is as it
\* was, and donatedRemoved has grown by the sum of the removed entries.
C2_SoftDeleteStripsDonations ==
  [][(last'.op = "delete-member" /\ last'.status = 200) =>
      LET mine == EntriesOfRoll(donations, last'.req.rollNo)
      IN /\ EntriesOfRoll(donations', last'.req.rollNo) = {}
         /\ DonationEntries(donations') = DonationEntries(donations) \ mine
         /\ \A e \in DonationEntries(donations) \ mine :
              LeafAt(donations', e[1], e[2], e[3]) = LeafAt(donations, e[1], e[2], e[3])
         /\ DonatedRemoved(additional') =
              N(AsAmount(DonatedRemoved(additional)) + SumOfEntries(donations, mine))
     ]_vars

\* C9: donatedRemoved is a number that no step lowers, and only a soft delete
\* changes it.
C9_DonatedRemovedOnlyGrows ==
  [][/\ DonatedRemoved(additional').k = "num"
     /\ DonatedRemoved(additional').n >= AsAmount(DonatedRemoved(additional))
     /\ DonatedRemoved(additional') # DonatedRemoved(additional)
          => last'.op = "delete-member" /\ last'.status = 200
    ]_vars

\* C10: no two records of the roster have the same roll_no.
C10_OneRecordPerRollNo ==
  \A i, j \in 1..Len(members) :
    i # j => ToKey(members[i].roll_no) # ToKey(members[j].roll_no)

\* The roll numbers of a roster, as strings.
RollNumbers(mem) == {ToKey(mem[i].roll_no) : i \in 1..Len(mem)}

\* The record m after a soft delete: the four personal fields are empty, the
\* roll_no and every other field as before.
Blanked(m) == [m EXCEPT !.name = "", !.last_name = "", !.phone_no = "", !.address = ""]

\* C11: a soft delete that found its member leaves the roster as long as it
\* was, with one record of that roll number blanked (roll_no kept, name,
\* last_name, phone_no and address empty) and every other record as it was;
\* and no step of any kind takes a roll number out of the roster.
C11_SoftDeleteKeepsRow ==
  [][/\ (last'.op = "delete-member" /\ last'.status = 200) =>
          /\ Len(members') = Len(members)
          /\ \E i \in 1..Len(members) :
               /\ SameNumber(ParseInt(members[i].roll_no), ParseInt(last'.req.rollNo))
               /\ members'[i] = Blanked(members[i])
               /\ members'[i].roll_no = members[i].roll_no
               /\ \A j \in 1..Len(members) : j # i => members'[j] = members[j]
     /\ RollNumbers(members) \subseteq RollNumbers(members')
    ]_vars

\* A soft delete blanked a record that had personal fields, in a roster that
\* holds another record whose fields are still there.
C11_Witness ==
  /\ last.op = "delete-member" /\ last.status = 200
  /\ Len(members) >= 2
  /\ \E i, j \in 1..Len(members) :
       /\ SameNumber(ParseInt(members[i].roll_no), ParseInt(last.req.rollNo))
       /\ members[i].name = "" /\ members[i].address = ""
       /\ i # j /\ members[j].name # ""

\* --------------------------------------- claims: donations, continued

\* The kind of total an extended request does not add to.
OtherKind(kind) == IF kind = "donation" THEN "fine" ELSE "donation"

\* C12: in the extended variant an accepted accumulate leaves the other total
\* of its coordinate as it was (0 when the coordinate is new), leaves the leaf
\* of every other (year, month, rollNo) as it was, and adds no entry but its
\* own.
C12_TotalsIndependent ==
  [][(variant = "extended" /\ last'.op = "update-donations" /\ last'.status = 200) =>
      LET c == CoordinateOf(variant, last'.req)
          e == <<c[1], c[2], c[3]>>
          before == LeafAt(donations, e[1], e[2], e[3])
          after == LeafAt(donations', e[1], e[2], e[3])
      IN /\ after.shape = "object"
         /\ after[OtherKind(c[4])] =
              IF before.shape = "object" THEN before[OtherKind(c[4])] ELSE N(0)
         /\ DonationEntries(donations') = DonationEntries(donations) \cup {e}
         /\ \A x \in DonationEntries(donations) \ {e} :
              LeafAt(donations', x[1], x[2], x[3]) = LeafAt(donations, x[1], x[2], x[3])
     ]_vars

\* A fine was added to a coordinate whose donation total is not 0, with an
\* entry under another coordinate.
C12_Witness ==
  /\ variant = "extended"
  /\ last.op = "update-donations" /\ last.status = 200 /\ last.req.type = "fine"
  /\ LET leaf == LeafAt(donations, ToKey(last.req.year), last.req.month, ToKey(last.req.rollNo))
     IN leaf.shape = "object" /\ leaf.donation.k = "num" /\ leaf.donation.n # 0
        /\ leaf.fine.k = "num" /\ leaf.fine.n # 0
  /\ Cardinality(DonationEntries(donations)) >= 2

\* ----------------------------------------------------- claims: summary

\* What a leaf counts towards the donations: a number leaf itself, the
\* donation field of an object leaf.
DonationPart(leaf) ==
  IF leaf.shape = "number" THEN leaf.n
  ELSE IF leaf.shape = "object" /\ leaf.donation.k = "num" THEN leaf.donation.n
  ELSE 0

\* What a leaf counts towards the fines: the fine field of an object leaf.
FinePart(leaf) ==
  IF leaf.shape = "object" /\ leaf.fine.k = "num" THEN leaf.fine.n ELSE 0

\* The sum of DonationPart, or of FinePart when fines is TRUE, over the
\* entries S of a ledger.
RECURSIVE PartsTotal(_, _, _)
PartsTotal(data, S, fines) ==
  IF S = {} THEN 0
  ELSE LET e == CHOOSE x \in S : TRUE
           leaf == LeafAt(data, e[1], e[2], e[3])
       IN (IF fines THEN FinePart(leaf) ELSE DonationPart(leaf))
            + PartsTotal(data, S \ {e}, fines)

\* The sum of the amounts of a list of expenses.
RECURSIVE AmountsOf(_)
AmountsOf(list) == IF list = <<>> THEN 0 ELSE Head(list).amount + AmountsOf(Tail(list))

\* The sum of the amounts of the lists under the (year, month) nodes S.
RECURSIVE ExpensesTotal(_, _)
ExpensesTotal(data, S) ==
  IF S = {} THEN 0
  ELSE LET node == CHOOSE x \in S : TRUE
       IN AmountsOf(ExpenseList(data, node[1], node[2])) + ExpensesTotal(data, S \ {node})

Overlapped ==
  last.op = "update-donations" /\ last.status = 200 /\ last.missed >= 1

C16_RejectedChangesNothing ==
  [][(last'.status = 400 \/ (last'.op = "delete-member" /\ last'.status = 404)) =>
       /\ members' = members
       /\ attendance' = attendance
       /\ donations' = donations
       /\ expenses' = expenses
       /\ additional' = additional
    ]_vars

\* A soft delete was answered 404 with a member on the roster, a donation in
\* the ledger, an expense on the books and a roll number marked present.
C16_Witness ==
  /\ last.op = "delete-member" /\ last.status = 404
  /\ members # <<>> /\ DonationEntries(donations) # {}
  /\ Present(attendance) # {}
  /\ \E node \in ExpenseNodes(expenses) : ExpenseList(expenses, node[1], node[2]) # <<>>

\* ------------------------------------------- claims: interrupted writes

\* The sum of the donation ledger plus donatedRemoved.
Quantity(don, add) ==
  SumOfEntries(don, DonationEntries(don)) + AsAmount(DonatedRemoved(add))

\* C17: a soft delete stopped after the member write leaves the donation and
\* counters documents as they were; one stopped after the donation write
\* leaves the member blanked and the ledger without any entry of the roll
\* number while donatedRemoved is as it was, so the quantity ledger +
\* donatedRemoved has dropped by the sum of the removed entries; and a soft
\* delete that runs to completion leaves donatedRemoved a number and the
\* quantity as it was.
C17_InterruptedSoftDelete ==
  [][/\ (last'.op = "delete-member-interrupted" /\ last'.written = 1) =>
          /\ \E i \in 1..Len(members) : members' = [members EXCEPT ![i] = Blanked(@)]
          /\ donations' = donations /\ additional' = additional
     /\ (last'.op = "delete-member-interrupted" /\ last'.written = 2) =>
          LET mine == EntriesOfRoll(donations, last'.req.rollNo)
          IN /\ EntriesOfRoll(donations', last'.req.rollNo) = {}
             /\ DonationEntries(donations') = DonationEntries(donations) \ mine
             /\ additional' = additional
             /\ Quantity(donations', additional') =
                  Quantity(donations, additional) - SumOfEntries(donations, mine)
     /\ (last'.op = "delete-member" /\ last'.status = 200) =>
          /\ DonatedRemoved(additional').k = "num"
          /\ Quantity(donations', additional') = Quantity(donations, additional)
    ]_vars

\* C17 for soft deletes whose roll number is sent as a number, on a ledger of
\* number leaves: the part of C17 that does not meet the comparison and the
\* addition that C2 is about.
C17_NumberRollNumberLeaves ==
  [][(/\ last'.op \in {"delete-member-interrupted", "delete-member"}
      /\ last'.req.rollNo.t = "num"
      /\ \A e \in DonationEntries(donations) :
           LeafAt(donations, e[1], e[2], e[3]).shape = "number")
     => LET mine == EntriesOfRoll(donations, last'.req.rollNo)
        IN /\ (last'.op = "delete-member-interrupted" /\ last'.written = 2) =>
                /\ EntriesOfRoll(donations', last'.req.rollNo) = {}
                /\ additional' = additional
                /\ Quantity(donations', additional') =
                     Quantity(donations, additional) - SumOfEntries(donations, mine)
           /\ (last'.op = "delete-member" /\ last'.status = 200) =>
                Quantity(donations', additional') = Quantity(donations, additional)
    ]_vars

\* A soft delete stopped after the donation write: entries with a sum other
\* than 0 are gone from the ledger and donatedRemoved has not moved.
C17_InterruptedLosesTotal ==
  /\ last.op = "delete-member-interrupted" /\ last.written = 2
  /\ last.totalRemoved.k = "num" /\ last.totalRemoved.n # 0
  /\ DonatedRemoved(additional) = N(0)
  /\ EntriesOfRoll(donations, last.req.rollNo) = {}

\* ------------------------------------------------ claims: mixed leaves

\* C18: whatever leaf its coordinate holds (none, a number, an object), an
\* accepted accumulate raises the total it adds to by its amount and keeps
\* what the leaf held: the legacy handler raises the donations the leaf
\* counts for and keeps its fines, the extended handler raises the total of
\* its kind and keeps the other.
C18_MixedLeavesAccumulate ==
  [][(last'.op = "update-donations" /\ last'.status = 200) =>
      LET c == CoordinateOf(variant, last'.req)
          before == LeafAt(donations, c[1], c[2], c[3])
          after == LeafAt(donations', c[1], c[2], c[3])
          amount == ToNumber(last'.req.amount).n
      IN IF c[4] = "fine"
         THEN /\ FinePart(after) = FinePart(before) + amount
              /\ DonationPart(after) = DonationPart(before)
         ELSE /\ DonationPart(after) = DonationPart(before) + amount
              /\ FinePart(after) = FinePart(before)
     ]_vars

\* C18 for the leaves a handler meets on a ledger that only its own variant
\* wrote: none or a number for the legacy handler, none or an object for the
\* extended one.
C18_OwnLeavesAccumulate ==
  [][(/\ last'.op = "update-donations" /\ last'.status = 200
      /\ LeafAt(donations, ToKey(last'.req.year), last'.req.month,
                ToKey(last'.req.rollNo)).shape
           \in {"absent", IF variant = "legacy" THEN "number" ELSE "object"}) =>
      LET c == CoordinateOf(variant, last'.req)
          before == LeafAt(donations, c[1], c[2], c[3])
          after == LeafAt(donations', c[1], c[2], c[3])
          amount == ToNumber(last'.req.amount).n
      IN IF c[4] = "fine"
         THEN /\ FinePart(after) = FinePart(before) + amount
              /\ DonationPart(after) = DonationPart(before)
         ELSE /\ DonationPart(after) = DonationPart(before) + amount
              /\ FinePart(after) = FinePart(before)
     ]_vars

====
